---------------------------- MODULE Spec2Model ----------------------------
(***************************************************************************)
(* Model of the three news-sentiment scripts of the repository:            *)
(*   ProjectCodeTest1.py  page scrape + newspaper + transformers pipeline  *)
(*   ProjectCodeTest2.py  RSS feed + requests/BeautifulSoup + VADER        *)
(*   pro1.py              RSS feed + newspaper + VADER + one-way ANOVA     *)
(* Each script is a sequential run: for every configured outlet it fetches *)
(* the listing, extracts the candidates one by one, and scores them.  One  *)
(* action models one loop iteration or one straight-line block of a        *)
(* script; the variable script says which of the three files is running.   *)
(* The network (listing pages, feeds, article pages) and the scorers'      *)
(* faults are the environment.  Texts are sequences of character codes.    *)
(***************************************************************************)
EXTENDS Integers, Sequences, FiniteSets

\* ---------------------------------------------------------------- bounds
\* Largest max_articles a run is started with.
MaxLimit == 2
\* Most anchors / feed entries the listings of one run carry in total.
MaxCandidates == 3

\* ------------------------------------------------------ program constants
\* article.text[:1000]
MaxChars == 1000
\* classifier(text[:512])
ClassifierChars == 512
\* requests.get(entry.link, timeout=10) etc. are not modelled in time.

Scripts == {"ProjectCodeTest1", "ProjectCodeTest2", "pro1"}

\* The configured outlets, in dict insertion order (the same three names in
\* news_sites and in both feeds dicts).
OutletNames == <<"CNN", "Fox News", "NYT">>

NumOutlets == Len(OutletNames)

Configured == {OutletNames[i] : i \in 1..NumOutlets}

\* news_sites: outlet -> front page URL, as scheme://host/path
news_sites(o) ==
    CASE o = "CNN"      -> [scheme |-> "https", host |-> "edition.cnn.com", path |-> "/politics"]
      [] o = "Fox News" -> [scheme |-> "https", host |-> "www.foxnews.com", path |-> "/politics"]
      [] o = "NYT"      -> [scheme |-> "https", host |-> "www.nytimes.com", path |-> "/section/politics"]

\* feeds: outlet -> feed URL.
feeds(o) ==
    CASE o = "CNN"      -> [scheme |-> "http", host |-> "rss.cnn.com", path |-> "/rss/cnn_allpolitics.rss"]
      [] o = "Fox News" -> [scheme |-> "http", host |-> "feeds.foxnews.com", path |-> "/foxnews/politics"]
      [] o = "NYT"      -> [scheme |-> "https", host |-> "rss.nytimes.com", path |-> "/services/xml/rss/nyt/Politics.xml"]

\* --------------------------------------------------------- Python helpers
Min(a, b) == IF a < b THEN a ELSE b

Max(a, b) == IF a > b THEN a ELSE b

\* Python's s[:n] on a list or a string.
Take(s, n) ==
    IF n >= 0 THEN SubSeq(s, 1, Min(n, Len(s)))
    ELSE SubSeq(s, 1, Max(0, Len(s) + n))

\* list(set(xs)): the elements of a set in an order the program does not
\* control (hash order): every ordering is possible.
Orderings(S) ==
    {f \in [1..Cardinality(S) -> S] : \A i, j \in 1..Cardinality(S) : f[i] = f[j] => i = j}

Range(s) == {s[i] : i \in 1..Len(s)}

\* All sequences over S of length at most n.
SeqUpTo(S, n) == UNION {[1..k -> S] : k \in 0..n}

\* ------------------------------------------------------------ environment
\* The article pages an outlet's site serves, named by what the extractor
\* finds on them: a body longer than MaxChars, a body longer than
\* ClassifierChars but within MaxChars, a short body, no text at all (a
\* paywall, a page with no <p> element), and a page that cannot be retrieved.
Slugs == {"long", "medium", "short", "empty", "broken"}

\* Length of the body text on article page s.
DocLen(s) ==
    CASE s = "long"   -> MaxChars + 1
      [] s = "medium" -> ClassifierChars + 1
      [] s = "short"  -> 3
      [] OTHER        -> 0

\* First character code of the body text on article page s.
DocSeed(s) ==
    CASE s = "long" -> 11 [] s = "medium" -> 23 [] s = "short" -> 37 [] OTHER -> 0

\* The body text of article page s, a sequence of character codes.
DocText(s) == [i \in 1..DocLen(s) |-> (DocSeed(s) + i) % 97]

\* download()/parse()/requests.get raise on the page that cannot be retrieved.
Downloads(link) == link.slug # "broken"

\* The anchors a listing page of outlet o may carry: every article as a
\* relative href, two of them as an absolute URL too, and one href of
\* another section.
Anchors(o) ==
    {[scheme |-> "", host |-> "", section |-> "politics", slug |-> s] : s \in Slugs}
    \cup {[scheme |-> "https", host |-> news_sites(o).host, section |-> "politics", slug |-> s] :
             s \in {"long", "short"}}
    \cup {[scheme |-> "", host |-> "", section |-> "sport", slug |-> "short"]}

EntryLink(o, s) ==
    [scheme |-> "https", host |-> news_sites(o).host, section |-> "politics", slug |-> s]

\* The entries a feed of outlet o may carry.  A feedparser entry is a dict;
\* reading a key it lacks (entry.link, entry.title, entry.published) raises
\* AttributeError.  A missing key is a missing field of the record.
FeedEntries(o) ==
    {[link |-> EntryLink(o, s), title |-> s, published |-> s] : s \in Slugs}
    \cup {[title |-> "long", published |-> "long"]}
    \cup {[link |-> EntryLink(o, "long"), published |-> "long"]}
    \cup {[link |-> EntryLink(o, "medium"), title |-> "medium"]}

Has(entry, key) == key \in DOMAIN entry

\* ------------------------------------------------------------------ state
VARIABLES
    script,         \* which of the three files runs
    max_articles,   \* the limit passed to extract_articles / fetch_articles
    pc,             \* position in the script
    oi,             \* index of the outlet the outer loop is at
    entries,        \* links (ProjectCodeTest1) / entries (feeds) being looped over
    done,           \* iterations of the extraction loop completed
    articles,       \* the list the fetch function is building
    extracted,      \* article.text / text of the last successful extraction
    last,           \* what the last extraction iteration did
    texts,          \* ProjectCodeTest1: the list returned by extract_articles
    ti,             \* ProjectCodeTest1: iterations of the classify loop completed
    text,           \* ProjectCodeTest1: loop variable of the classify loop
    classifier_arg, \* ProjectCodeTest1: what the classifier was last called with
    data,           \* ProjectCodeTest1: the rows collected
    records,        \* feeds: the rows collected
    sentiment,      \* feeds: the values computed so far for df['sentiment']
    groups,         \* pro1: the arrays handed to f_oneway
    anova,          \* pro1: "" until f_oneway is called, then what came of it
    notices,        \* the per-item messages printed
    crash,          \* "" or the place an uncaught exception left the script
    served          \* anchors / feed entries the listings have carried so far

vars == <<script, max_articles, pc, oi, entries, done, articles, extracted, last,
          texts, ti, text, classifier_arg, data, records, sentiment, groups,
          anova, notices, crash, served>>

loopVars == <<entries, done, articles, extracted, last>>

classifyVars == <<texts, ti, text, classifier_arg, data>>

frameVars == <<records, sentiment, groups, anova>>

\* The scripts call the fetch functions with max_articles = 10 (the default,
\* ProjectCodeTest1 and ProjectCodeTest2) and 20 (pro1); the functions take
\* any limit, and the model runs them with the small ones.
Init ==
    /\ script \in Scripts
    /\ max_articles \in 1..MaxLimit
    /\ pc = "listing"
    /\ oi = 1
    /\ entries = <<>>
    /\ done = 0
    /\ articles = <<>>
    /\ extracted = <<>>
    /\ last = "none"
    /\ texts = <<>>
    /\ ti = 0
    /\ text = <<>>
    /\ classifier_arg = <<>>
    /\ data = <<>>
    /\ records = <<>>
    /\ sentiment = <<>>
    /\ groups = <<>>
    /\ anova = ""
    /\ notices = <<>>
    /\ crash = ""
    /\ served = 0

outlet == OutletNames[oi]

\* An exception nothing catches ends the script with a traceback.
Uncaught(where) ==
    /\ crash' = where
    /\ pc' = "crashed"

\* --------------------------------------------- ProjectCodeTest1: listing
\* '/politics/' in a['href']
InPolitics(href) == href.section = "politics"

\* link if link.startswith('http') else f'https://{url.split("//")[1].split("/")[0]}{link}'
Resolve(link, url) ==
    IF link.scheme \in {"http", "https"} THEN link
    ELSE [scheme |-> "https", host |-> url.host, section |-> link.section, slug |-> link.slug]

\* The slice forgotten: every candidate found is kept.
CandidatesUncut(found, limit) == found

\* links[:max_articles] / feed.entries[:max_articles]
Candidates(found, limit) == Take(found, limit)

\* extract_articles, lines 23-28, when requests.get(url) raises (connection
\* refused, DNS failure, timeout): no try encloses the call, and none
\* encloses extract_articles(url) in the outer loop.
ScrapeListingError ==
    /\ script = "ProjectCodeTest1"
    /\ pc = "listing"
    /\ Uncaught("listing")
    /\ UNCHANGED <<script, max_articles, oi, loopVars, classifyVars, frameVars, notices>>
    /\ UNCHANGED served

\* extract_articles, lines 23-30, when the page is retrieved: the set of the
\* hrefs containing '/politics/', listed in some order, cut to max_articles,
\* relative ones resolved against the page's host.
ScrapeListing ==
    /\ script = "ProjectCodeTest1"
    /\ pc = "listing"
    /\ \E page \in SeqUpTo(Anchors(outlet), MaxCandidates - served) :
         LET hrefs == {h \in Range(page) : InPolitics(h)} IN
         /\ served' = served + Len(page)
         /\ \E order \in Orderings(hrefs) :
              LET cut == Candidates(order, max_articles) IN
              entries' = [k \in 1..Len(cut) |-> Resolve(cut[k], news_sites(outlet))]
    /\ done' = 0
    /\ articles' = <<>>
    /\ last' = "none"
    /\ pc' = "extract"
    /\ UNCHANGED <<script, max_articles, oi, extracted, classifyVars, frameVars, notices, crash>>

\* ------------------------------------------------------- feeds: listing
\* fetch_articles, lines 31-32 (ProjectCodeTest2) and 48-50 (pro1):
\* feedparser.parse does not raise on an unreachable or malformed feed, it
\* returns a result with no entries (and bozo set).
ParseFeed ==
    /\ script \in {"ProjectCodeTest2", "pro1"}
    /\ pc = "listing"
    /\ \E feed \in SeqUpTo(FeedEntries(outlet), MaxCandidates - served) :
         /\ served' = served + Len(feed)
         /\ entries' = Candidates(feed, max_articles)
    /\ done' = 0
    /\ articles' = <<>>
    /\ last' = "none"
    /\ pc' = "extract"
    /\ UNCHANGED <<script, max_articles, oi, extracted, classifyVars, frameVars, notices, crash>>

\* ------------------------------------------ ProjectCodeTest1: extraction
\* The slice forgotten: the whole body is stored.
StoredTextWhole(body) == body

\* article.text[:1000]
StoredText(body) == Take(body, MaxChars)

\* One iteration of the loop of extract_articles, lines 31-38.
ExtractArticle ==
    /\ script = "ProjectCodeTest1"
    /\ pc = "extract"
    /\ done < Len(entries)
    /\ LET link == entries[done + 1] IN
         IF Downloads(link)
         THEN /\ extracted' = DocText(link.slug)
              /\ articles' = Append(articles, StoredText(DocText(link.slug)))
              /\ last' = "stored"
              /\ UNCHANGED notices
         ELSE /\ notices' = Append(notices, "Skipping article")
              /\ last' = "skipped"
              /\ UNCHANGED <<articles, extracted>>
    /\ done' = done + 1
    /\ UNCHANGED <<script, max_articles, pc, oi, entries, classifyVars, frameVars, crash>>
    /\ UNCHANGED served

\* return articles (line 39); texts = extract_articles(url) (line 44).
ReturnTexts ==
    /\ script = "ProjectCodeTest1"
    /\ pc = "extract"
    /\ done = Len(entries)
    /\ texts' = articles
    /\ ti' = 0
    /\ pc' = "classify"
    /\ entries' = <<>>
    /\ done' = 0
    /\ articles' = <<>>
    /\ extracted' = <<>>
    /\ last' = "none"
    /\ UNCHANGED <<script, max_articles, oi, text, classifier_arg, data,
                   frameVars, notices, crash>>
    /\ UNCHANGED served

\* ------------------------------------------------------ feeds: extraction
\* One iteration of the loop of fetch_articles.  The try block reads
\* entry.link first, then retrieves the page, then reads entry.title and
\* entry.published while building the dict.  The except block formats
\* entry.link into its message: when it is entry.link that is missing, the
\* handler raises AttributeError itself, out of fetch_articles and out of the
\* script, whose outer loop has no try.
FetchStep(message) ==
    /\ pc = "extract"
    /\ done < Len(entries)
    /\ LET entry == entries[done + 1] IN
         IF ~Has(entry, "link")
         THEN /\ Uncaught("handler")
              /\ UNCHANGED <<done, articles, extracted, last, notices>>
         ELSE /\ done' = done + 1
              /\ UNCHANGED <<pc, crash>>
              /\ IF Downloads(entry.link) /\ Has(entry, "title") /\ Has(entry, "published")
                 THEN /\ extracted' = DocText(entry.link.slug)
                      /\ articles' = Append(articles,
                             [title |-> entry.title,
                              text |-> DocText(entry.link.slug),
                              published |-> entry.published])
                      /\ last' = "stored"
                      /\ UNCHANGED notices
                 ELSE /\ notices' = Append(notices, message)
                      /\ last' = "skipped"
                      /\ UNCHANGED <<articles, extracted>>
    /\ UNCHANGED <<script, max_articles, oi, entries, classifyVars, frameVars>>
    /\ UNCHANGED served

\* ProjectCodeTest2.fetch_articles, lines 33-46.
FetchArticleSoup ==
    /\ script = "ProjectCodeTest2"
    /\ FetchStep("Failed to fetch article")

\* pro1.fetch_articles, lines 51-62.
FetchArticleNews ==
    /\ script = "pro1"
    /\ FetchStep("Error fetching")

\* The rows the outer loop appends for one outlet.
Rows(source, arts) ==
    [k \in 1..Len(arts) |->
        [source |-> source, title |-> arts[k].title, text |-> arts[k].text,
         published |-> arts[k].published]]

\* return articles, and the body of the outer loop over feeds.items().
CollectRecords ==
    /\ script \in {"ProjectCodeTest2", "pro1"}
    /\ pc = "extract"
    /\ done = Len(entries)
    /\ records' = records \o Rows(outlet, articles)
    /\ entries' = <<>>
    /\ done' = 0
    /\ articles' = <<>>
    /\ extracted' = <<>>
    /\ last' = "none"
    /\ IF oi < NumOutlets
       THEN oi' = oi + 1 /\ pc' = "listing"
       ELSE oi' = oi /\ pc' = "frame"
    /\ UNCHANGED <<script, max_articles, classifyVars, sentiment, groups, anova,
                   notices, crash>>
    /\ UNCHANGED served

\* --------------------------------------- ProjectCodeTest1: classification
\* The slice forgotten: the classifier is handed the stored text as it is.
ClassifierInputWhole(body) == body

\* text[:512]
ClassifierInput(body) == Take(body, ClassifierChars)

\* The pretrained pipeline, a fixed function of its input; only that it
\* returns a label and a confidence matters here.
classifier(input) ==
    [label |-> IF Len(input) % 2 = 0 THEN "POSITIVE" ELSE "NEGATIVE", score |-> 99]

\* One iteration of the inner loop, lines 45-55: the classifier may raise on
\* any call; the except block prints and the loop goes on.
ClassifyText ==
    /\ script = "ProjectCodeTest1"
    /\ pc = "classify"
    /\ ti < Len(texts)
    /\ text' = texts[ti + 1]
    /\ classifier_arg' = ClassifierInput(texts[ti + 1])
    /\ \E raises \in BOOLEAN :
         IF raises
         THEN /\ notices' = Append(notices, "Error classifying text")
              /\ last' = "unscored"
              /\ UNCHANGED data
         ELSE /\ data' = Append(data,
                     [outlet |-> outlet,
                      text |-> texts[ti + 1],
                      label |-> classifier(ClassifierInput(texts[ti + 1])).label,
                      score |-> classifier(ClassifierInput(texts[ti + 1])).score])
              /\ last' = "scored"
              /\ UNCHANGED notices
    /\ ti' = ti + 1
    /\ UNCHANGED <<script, max_articles, pc, oi, entries, done, articles, extracted,
                   texts, frameVars, crash>>
    /\ UNCHANGED served

\* End of the inner loop: the next outlet, or df = pd.DataFrame(data) (line 58)
\* after the last one.  The plot that follows is not part of the pipeline.
NextOutlet ==
    /\ script = "ProjectCodeTest1"
    /\ pc = "classify"
    /\ ti = Len(texts)
    /\ IF oi < NumOutlets
       THEN oi' = oi + 1 /\ pc' = "listing"
       ELSE oi' = oi /\ pc' = "done"
    /\ texts' = <<>>
    /\ ti' = 0
    /\ last' = "none"
    /\ UNCHANGED <<script, max_articles, entries, done, articles, extracted, text,
                   classifier_arg, data, frameVars, notices, crash>>
    /\ UNCHANGED served

\* ---------------------------------------------------------- feeds: scoring
\* sia.polarity_scores(txt)['compound']: a fixed function of the text with
\* values in [-1, 1]; the model keeps three of them.
compound(body) == (Len(body) % 3) - 1

\* df = pd.DataFrame(records) and the start of df['text'].apply(...)
\* (ProjectCodeTest2 lines 61-67, pro1 lines 77-83).  A frame built from an
\* empty list has no columns, so df['text'] raises KeyError.
BuildFrame ==
    /\ script \in {"ProjectCodeTest2", "pro1"}
    /\ pc = "frame"
    /\ IF records = <<>>
       THEN Uncaught("frame")
       ELSE pc' = "score" /\ UNCHANGED crash
    /\ UNCHANGED <<script, max_articles, oi, loopVars, classifyVars, frameVars, notices>>
    /\ UNCHANGED served

\* One call of the lambda by Series.apply.  Nothing catches what the scorer
\* raises: the exception leaves apply and the script.
ScoreText ==
    /\ script \in {"ProjectCodeTest2", "pro1"}
    /\ pc = "score"
    /\ Len(sentiment) < Len(records)
    /\ \E raises \in BOOLEAN :
         IF raises
         THEN /\ Uncaught("scorer")
              /\ UNCHANGED sentiment
         ELSE /\ sentiment' = Append(sentiment, compound(records[Len(sentiment) + 1].text))
              /\ UNCHANGED <<pc, crash>>
    /\ UNCHANGED <<script, max_articles, oi, loopVars, classifyVars, records, groups,
                   anova, notices>>
    /\ UNCHANGED served

\* ProjectCodeTest2, lines 67-78: the column is assigned and the box plot drawn.
FinishSoup ==
    /\ script = "ProjectCodeTest2"
    /\ pc = "score"
    /\ Len(sentiment) = Len(records)
    /\ pc' = "done"
    /\ UNCHANGED <<script, max_articles, oi, loopVars, classifyVars, frameVars,
                   notices, crash>>
    /\ UNCHANGED served

Indices(n) == [k \in 1..n |-> k]

\* group['sentiment'].values for the rows of one source, in row order.
ValuesOf(source, recs, column) ==
    LET rows == SelectSeq(Indices(Len(recs)), LAMBDA k : recs[k].source = source)
    IN  [j \in 1..Len(rows) |-> column[rows[j]]]

\* df.groupby('source'): one group per source value that occurs in the frame,
\* in sorted key order ("CNN" < "Fox News" < "NYT", the order of OutletNames).
GroupBy(recs, column) ==
    LET present == SelectSeq(Indices(NumOutlets),
                       LAMBDA i : \E k \in 1..Len(recs) : recs[k].source = OutletNames[i])
    IN  [j \in 1..Len(present) |->
            [source |-> OutletNames[present[j]],
             values |-> ValuesOf(OutletNames[present[j]], recs, column)]]

\* pro1, lines 83-101: the column is assigned, the groups are built and
\* f_oneway(*groups) is called on them whatever their number.  With a single
\* group scipy either raises TypeError (at least two inputs are required) or,
\* in older releases, returns nan, and nan < 0.05 is false.
Anova ==
    /\ script = "pro1"
    /\ pc = "score"
    /\ Len(sentiment) = Len(records)
    /\ groups' = GroupBy(records, sentiment)
    /\ IF Len(GroupBy(records, sentiment)) < 2
       THEN \/ /\ anova' = "raised"
               /\ Uncaught("anova")
            \/ /\ anova' = "No significant difference"
               /\ pc' = "done"
               /\ UNCHANGED crash
       ELSE /\ anova' \in {"significant difference", "No significant difference"}
            /\ pc' = "done"
            /\ UNCHANGED crash
    /\ UNCHANGED <<script, max_articles, oi, loopVars, classifyVars, records,
                   sentiment, notices>>
    /\ UNCHANGED served

\* ------------------------------------------------------------ the scripts
Next ==
    \/ ScrapeListingError
    \/ ScrapeListing
    \/ ExtractArticle
    \/ ReturnTexts
    \/ ClassifyText
    \/ NextOutlet
    \/ ParseFeed
    \/ FetchArticleSoup
    \/ FetchArticleNews
    \/ CollectRecords
    \/ BuildFrame
    \/ ScoreText
    \/ FinishSoup
    \/ Anova

Spec == Init /\ [][Next]_vars

\* ----------------------------------------------------------------- claims
\* s is the first min(n, Len(t)) characters of t.
IsPrefixOfLength(s, t, n) ==
    /\ Len(s) = Min(n, Len(t))
    /\ \A i \in 1..Len(s) : s[i] = t[i]

\* The link of a candidate the extraction loop has gone through.
LinkOf(candidate) ==
    IF script = "ProjectCodeTest1" THEN candidate ELSE candidate.link

\* C1: an error raised by the fetch of one outlet's listing does not end the
\* run: the run goes on with the other outlets and reaches the aggregation.
C1_ListingErrorIsolated == ~(pc = "crashed" /\ crash = "listing")

\* C2: a scorer that raises on one article costs that article only: the run
\* goes on, under the classifier and under the lexicon scorer alike, and
\* every row scored belongs to a configured outlet.
C2_ScoringErrorIsolated ==
    /\ ~(pc = "crashed" /\ crash = "scorer")
    /\ \A k \in 1..Len(data) : data[k].outlet \in Configured
    /\ (last = "unscored" => notices # <<>> /\ notices[Len(notices)] = "Error classifying text")

\* C3: a candidate whose extraction fails, the reading of the entry's link,
\* title or published fields included, is dropped with a notice and the fetch
\* function returns normally.
C3_ExtractionErrorIsolated ==
    /\ ~(pc = "crashed" /\ crash = "handler")
    /\ (last = "skipped" => notices # <<>>)

\* C4: the source adapter attempts at most max_articles candidates and
\* returns at most max_articles articles for an outlet.
C4_CandidateLimit ==
    /\ Len(entries) <= max_articles
    /\ done <= max_articles
    /\ Len(articles) <= max_articles
    /\ Len(texts) <= max_articles

\* C4 witness: a feed carried more entries than the limit, and the loop has
\* extracted as many articles as the limit allows.
C4_Witness ==
    /\ script = "pro1"
    /\ oi = 1
    /\ served > max_articles
    /\ pc = "extract"
    /\ done = Len(entries)
    /\ Len(articles) = max_articles

\* C5: within one outlet no link is fetched twice, whether a feed carries it
\* in two entries or a page carries it as a relative and as an absolute href.
C5_NoLinkFetchedTwice ==
    pc = "extract" =>
        \A i, j \in 1..done : LinkOf(entries[i]) = LinkOf(entries[j]) => i = j

\* C6: once the groups are built, every configured outlet is the key of one
\* group, those with no scored article included, and no other key exists.
C6_EveryOutletGrouped ==
    anova # "" => {groups[j].source : j \in 1..Len(groups)} = Configured

\* C7: with fewer than two outlets holding a scored article the run does not
\* call f_oneway and prints no verdict, and it still completes.
C7_ComparisonGuarded ==
    /\ (anova # "" => Len(groups) >= 2)
    /\ \A j \in 1..Len(groups) : groups[j].values # <<>>
    /\ ~(pc = "crashed" /\ crash \in {"frame", "anova"})

\* C8: whenever the classifier is called, its argument is the first
\* min(512, len) characters of the stored text, at most 512 of them, and the
\* row appended keeps the stored text whole.
C8_ClassifierCeiling ==
    last \in {"scored", "unscored"} =>
        /\ text = texts[ti]
        /\ Len(classifier_arg) <= ClassifierChars
        /\ IsPrefixOfLength(classifier_arg, text, ClassifierChars)
        /\ (last = "scored" => data[Len(data)].text = texts[ti])

\* C8 witness: a stored text longer than 512 characters was classified and
\* its row appended.
C8_Witness ==
    /\ last = "scored"
    /\ Len(text) > ClassifierChars

\* C9: in the classifier script an extracted text longer than 1000
\* characters is stored as its first 1000 characters and a shorter one
\* unchanged, before any scoring; the lexicon scripts configure no bound and
\* store every text unchanged.
C9_TextTruncation ==
    /\ last = "stored" =>
          IF script = "ProjectCodeTest1"
          THEN IsPrefixOfLength(articles[Len(articles)], extracted, MaxChars)
          ELSE articles[Len(articles)].text = extracted
    /\ \A k \in 1..Len(texts) : Len(texts[k]) <= MaxChars
    /\ (last \in {"scored", "unscored"} => Len(text) <= MaxChars)

\* C9 witness: the classifier script has just stored a text extracted with
\* more than 1000 characters.
C9_Witness ==
    /\ script = "ProjectCodeTest1"
    /\ last = "stored"
    /\ Len(extracted) > MaxChars

\* C10: no text that reaches the scorer, and no scored row, is empty.
C10_NoEmptyText ==
    /\ \A k \in 1..Len(data) : data[k].text # <<>>
    /\ \A k \in 1..Len(sentiment) : records[k].text # <<>>
    /\ (last \in {"scored", "unscored"} => text # <<>>)

=============================================================================
